---- MODULE Spec2Model ----
(***************************************************************************)
(* A model of the Indian diet planner (src/diet_planner.py): the energy    *)
(* model (calculate_bmr, calculate_daily_calories), the food catalog       *)
(* filter (filter_foods_by_preferences), the meal composer                 *)
(* (select_foods_for_meal) and the plan assembler (generate_diet_plan).    *)
(*                                                                         *)
(* Python floats are modelled as IEEE 754 binary64 numbers: every          *)
(* arithmetic operation rounds its exact result to the nearest float, ties *)
(* to even.  The float NaN propagates through the arithmetic and makes     *)
(* every comparison false.  Overflow and subnormal numbers are out of the  *)
(* reach of the inputs and are not modelled.                               *)
(***************************************************************************)
EXTENDS Integers, Sequences, FiniteSets, TLC

----------------------------------------------------------------------------
(* Float arithmetic: IEEE 754 binary64, round to nearest, ties to even.    *)
(* An operator that reads an argument more than once first binds its value *)
(* to a variable (v \in {argument}), so that the argument is computed once. *)

\* the base of a limb of a significand
LimbBase == 16384

\* limbs[i], or 0 beyond the limbs held
Limb(limbs, i) == IF i \in 1..Len(limbs) THEN limbs[i] ELSE 0

ZeroLimbs == <<0, 0, 0, 0>>

\* the limbs (least significant first) shifted right by n bits into 4
\* limbs; the bits shifted out are kept as a set lowest bit (sticky)
ShiftRightJam(limbs, n) ==
    CHOOSE out \in
        {LET k == m \div 14
             low == 2 ^ (m % 14)
             high == 2 ^ (14 - (m % 14))
             limb(j) == (Limb(v, j + k) \div low)
                            + (Limb(v, j + k + 1) % low) * high
             lost == \/ \E i \in 1..Len(v) : i <= k /\ v[i] # 0
                     \/ Limb(v, k + 1) % low # 0
             sticky == IF lost /\ limb(1) % 2 = 0 THEN 1 ELSE 0
         IN  <<limb(1) + sticky, limb(2), limb(3), limb(4)>>
           : v \in {limbs}, m \in {n}} : TRUE

\* the limbs shifted left by n bits into len limbs, len 4 or 5
ShiftLeft(limbs, n, len) ==
    CHOOSE out \in
        {LET k == m \div 14
             low == 2 ^ (m % 14)
             high == 2 ^ (14 - (m % 14))
             limb(j) == ((Limb(v, j - k) % high) * low)
                            + (Limb(v, j - k - 1) \div high)
         IN  IF len = 4 THEN <<limb(1), limb(2), limb(3), limb(4)>>
             ELSE <<limb(1), limb(2), limb(3), limb(4), limb(5)>>
           : v \in {limbs}, m \in {n}} : TRUE

\* the number of bits of a limb n, 0 <= n < 2^14
BitLen(n) == Cardinality({k \in 0..13 : 2 ^ k <= n})

\* the number of bits of the number the 4 limbs hold
LimbsBitLen(limbs) ==
    CHOOSE len \in
        {IF v[4] # 0 THEN 42 + BitLen(v[4])
         ELSE IF v[3] # 0 THEN 28 + BitLen(v[3])
         ELSE IF v[2] # 0 THEN 14 + BitLen(v[2])
         ELSE BitLen(v[1])
           : v \in {limbs}} : TRUE

\* a < b for numbers of 4 limbs
LimbsLt(a, b) ==
    \E x \in {a}, y \in {b} :
        IF x[4] # y[4] THEN x[4] < y[4]
        ELSE IF x[3] # y[3] THEN x[3] < y[3]
        ELSE IF x[2] # y[2] THEN x[2] < y[2]
        ELSE x[1] < y[1]

\* a + b for numbers of 4 limbs; a carry out of the last limb stays in it
LimbsAdd(a, b) ==
    CHOOSE sum \in
        {LET t1 == x[1] + y[1]
             t2 == x[2] + y[2] + (t1 \div LimbBase)
             t3 == x[3] + y[3] + (t2 \div LimbBase)
             t4 == x[4] + y[4] + (t3 \div LimbBase)
         IN  <<t1 % LimbBase, t2 % LimbBase, t3 % LimbBase, t4>>
           : x \in {a}, y \in {b}} : TRUE

\* a - b for numbers of 4 limbs, a >= b
LimbsSub(a, b) ==
    CHOOSE diff \in
        {LET t1 == x[1] - y[1]
             t2 == x[2] - y[2] + (t1 \div LimbBase)
             t3 == x[3] - y[3] + (t2 \div LimbBase)
             t4 == x[4] - y[4] + (t3 \div LimbBase)
         IN  <<t1 % LimbBase, t2 % LimbBase, t3 % LimbBase, t4>>
           : x \in {a}, y \in {b}} : TRUE

\* the 8 limbs of a * b, for a and b of 4 limbs
LimbsMul(a, b) ==
    CHOOSE product \in
        {LET t1 == x[1] * y[1]
             t2 == x[1] * y[2] + x[2] * y[1] + (t1 \div LimbBase)
             t3 == x[1] * y[3] + x[2] * y[2] + x[3] * y[1] + (t2 \div LimbBase)
             t4 == x[1] * y[4] + x[2] * y[3] + x[3] * y[2] + x[4] * y[1]
                       + (t3 \div LimbBase)
             t5 == x[2] * y[4] + x[3] * y[3] + x[4] * y[2] + (t4 \div LimbBase)
             t6 == x[3] * y[4] + x[4] * y[3] + (t5 \div LimbBase)
             t7 == x[4] * y[4] + (t6 \div LimbBase)
         IN  <<t1 % LimbBase, t2 % LimbBase, t3 % LimbBase, t4 % LimbBase,
               t5 % LimbBase, t6 % LimbBase, t7 % LimbBase, t7 \div LimbBase>>
           : x \in {a}, y \in {b}} : TRUE

\* the 5 limbs of a number divided by d, 0 < d < 2^14: the 5 limbs of the
\* quotient, and the remainder
LimbsDivSmall(limbs, d) ==
    CHOOSE result \in
        {LET c5 == v[5]
             c4 == (c5 % e) * LimbBase + v[4]
             c3 == (c4 % e) * LimbBase + v[3]
             c2 == (c3 % e) * LimbBase + v[2]
             c1 == (c2 % e) * LimbBase + v[1]
         IN  <<<<c1 \div e, c2 \div e, c3 \div e, c4 \div e, c5 \div e>>,
               c1 % e>>
           : v \in {limbs}, e \in {d}} : TRUE

\* one step of the restoring division by den: the quotient bits in state[1]
\* get one more bit, what is left of the dividend is in state[2]
DivStep(state, den) ==
    CHOOSE next \in
        {IF LimbsLt(s[2], d)
         THEN <<2 * s[1], ShiftLeft(s[2], 1, 4)>>
         ELSE <<2 * s[1] + 1, ShiftLeft(LimbsSub(s[2], d), 1, 4)>>
           : s \in {state}, d \in {den}} : TRUE

RECURSIVE DivSteps(_, _, _)
DivSteps(state, den, bits) ==
    IF bits = 0 THEN state
    ELSE DivSteps(DivStep(state, den), den, bits - 1)

\* the next limb of the quotient, put before the limbs in state[1]; what is
\* left of the dividend is in state[2]
DivLimb(state, den) ==
    CHOOSE next \in
        UNION {{<<<<l[1]>> \o s[1], l[2]>>
                  : l \in {DivSteps(<<0, s[2]>>, d, 14)}}
                 : s \in {state}, d \in {den}} : TRUE

\* the 56 quotient bits of num / den (den <= num < 2 * den) in 4 limbs, and
\* whether a remainder is left
LimbsDiv(num, den) ==
    CHOOSE result \in
        {<<s[1], s[2] # ZeroLimbs>>
           : s \in {DivLimb(DivLimb(DivLimb(DivLimb(<<<<>>, num>>, den), den),
                                    den), den)}} : TRUE

\* A float is <<sign, exponent, significand>>: sign 0 (+) or 1 (-); for a
\* number other than 0 its value is significand * 2^(exponent - 52) with
\* 2^52 <= significand < 2^53, held in 4 limbs; 0 has exponent 0 and
\* significand 0.  NaN has the sign field 2.
NaN == <<2, 0, ZeroLimbs>>

IsNaN(x) == x[1] = 2

IsZero(x) == x[3] = ZeroLimbs

\* the float of the sign, exponent and 56-bit extended significand (the 53
\* bits, a guard bit, a round bit and a sticky bit), rounded to nearest,
\* ties to even
RoundPack(sign, exponent, extended) ==
    CHOOSE x \in
        UNION {{IF sum[4] = 2048 THEN <<sign, e + 1, <<0, 0, 0, 1024>>>>
                ELSE <<sign, e, sum>>
                  : sum \in
                        {LET low == w[1] % 8
                             odd == (w[1] \div 8) % 2 = 1
                             kept == ShiftRightJam(
                                         <<w[1] - low, w[2], w[3], w[4]>>, 3)
                         IN  IF low > 4 \/ (low = 4 /\ odd)
                             THEN LimbsAdd(kept, <<1, 0, 0, 0>>)
                             ELSE kept}}
                 : w \in {extended}, e \in {exponent}} : TRUE

\* float(n) for an integer n, |n| < 2^31
R(n) ==
    CHOOSE x \in
        UNION {{IF n = 0 THEN <<0, 0, ZeroLimbs>>
                ELSE <<IF n < 0 THEN 1 ELSE 0, len - 1,
                       ShiftLeft(limbs, 53 - len, 4)>>
                  : len \in {LimbsBitLen(limbs)}}
                 : limbs \in {LET m == IF n < 0 THEN -n ELSE n
                              IN  <<m % LimbBase, (m \div LimbBase) % LimbBase,
                                    m \div (LimbBase * LimbBase), 0>>}} : TRUE

\* |x| < |y| for numbers
MagLt(x, y) ==
    \E a \in {x}, b \in {y} :
        IF IsZero(b) THEN FALSE
        ELSE IF IsZero(a) THEN TRUE
        ELSE a[2] < b[2] \/ (a[2] = b[2] /\ LimbsLt(a[3], b[3]))

\* -x
RNeg(x) ==
    CHOOSE y \in
        {IF IsNaN(a) THEN NaN ELSE <<1 - a[1], a[2], a[3]>> : a \in {x}} : TRUE

\* |x| + |y| with the sign given, for numbers other than 0 with |x| >= |y|
AddMagnitudes(sign, x, y) ==
    CHOOSE z \in
        {IF sum[4] >= LimbBase
         THEN RoundPack(sign, x[2] + 1, ShiftRightJam(sum, 1))
         ELSE RoundPack(sign, x[2], sum)
           : sum \in {LimbsAdd(ShiftLeft(x[3], 3, 4),
                               ShiftRightJam(ShiftLeft(y[3], 3, 4),
                                             x[2] - y[2]))}} : TRUE

\* |x| - |y| with the sign given, for numbers other than 0 with |x| >= |y|
SubMagnitudes(sign, x, y) ==
    CHOOSE z \in
        UNION {{IF len = 0 THEN <<0, 0, ZeroLimbs>>
                ELSE RoundPack(sign, x[2] - (56 - len),
                               ShiftLeft(diff, 56 - len, 4))
                  : len \in {LimbsBitLen(diff)}}
                 : diff \in {LimbsSub(ShiftLeft(x[3], 3, 4),
                                      ShiftRightJam(ShiftLeft(y[3], 3, 4),
                                                    x[2] - y[2]))}} : TRUE

\* x + y for numbers other than 0 with |x| >= |y|
AddOrdered(x, y) ==
    IF x[1] = y[1] THEN AddMagnitudes(x[1], x, y)
    ELSE SubMagnitudes(x[1], x, y)

\* x + y
RAdd(x, y) ==
    CHOOSE z \in
        {IF IsNaN(a) \/ IsNaN(b) THEN NaN
         ELSE IF IsZero(b) THEN (IF IsZero(a) /\ a[1] # b[1] THEN R(0) ELSE a)
         ELSE IF IsZero(a) THEN b
         ELSE IF MagLt(a, b) THEN AddOrdered(b, a)
         ELSE AddOrdered(a, b)
           : a \in {x}, b \in {y}} : TRUE

\* x - y
RSub(x, y) == RAdd(x, RNeg(y))

\* the sign of a product or a quotient of x and y
SignOf(x, y) == IF x[1] = y[1] THEN 0 ELSE 1

\* x * y
RMul(x, y) ==
    CHOOSE z \in
        UNION {{IF IsNaN(a) \/ IsNaN(b) THEN NaN
                ELSE IF IsZero(a) \/ IsZero(b)
                THEN <<SignOf(a, b), 0, ZeroLimbs>>
                ELSE IF product[8] >= 128
                THEN RoundPack(SignOf(a, b), a[2] + b[2] + 1,
                               ShiftRightJam(product, 50))
                ELSE RoundPack(SignOf(a, b), a[2] + b[2],
                               ShiftRightJam(product, 49))
                  : product \in {LimbsMul(a[3], b[3])}}
                 : a \in {x}, b \in {y}} : TRUE

\* the 56 quotient bits of x / y for numbers other than 0, and whether a
\* remainder is left: by short division for a divisor whose significand
\* has one limb (100, and the integers below 2048), and else bit by bit
Quotient(x, y) ==
    IF y[3][1] = 0 /\ y[3][2] = 0 /\ y[3][3] = 0
    THEN CHOOSE q \in
             {<<SubSeq(short[1], 1, 4), short[2] # 0>>
                : short \in
                      {LimbsDivSmall(
                           ShiftLeft(x[3],
                                     IF LimbsLt(x[3], y[3]) THEN 14 ELSE 13, 5),
                           y[3][4])}} : TRUE
    ELSE LimbsDiv(IF LimbsLt(x[3], y[3]) THEN ShiftLeft(x[3], 1, 4) ELSE x[3],
                  y[3])

\* x / y; the code divides only by a number other than 0 (behind the guard
\* of line 217, and by 100), where Python raises ZeroDivisionError
RDiv(x, y) ==
    CHOOSE z \in
        {IF IsNaN(a) \/ IsNaN(b) \/ IsZero(b) THEN NaN
         ELSE IF IsZero(a) THEN <<SignOf(a, b), 0, ZeroLimbs>>
         ELSE CHOOSE r \in
                  {RoundPack(
                       SignOf(a, b),
                       a[2] - b[2] - (IF LimbsLt(a[3], b[3]) THEN 1 ELSE 0),
                       IF q[2] /\ q[1][1] % 2 = 0
                       THEN [q[1] EXCEPT ![1] = @ + 1]
                       ELSE q[1])
                     : q \in {Quotient(a, b)}} : TRUE
           : a \in {x}, b \in {y}} : TRUE

\* the float literal n/d of the source (the float nearest to n/d), d # 0
Frac(n, d) == RDiv(R(n), R(d))

\* x < y: false when either is NaN
RLt(x, y) ==
    \E a \in {x}, b \in {y} :
        /\ ~IsNaN(a)
        /\ ~IsNaN(b)
        /\ IF IsZero(a) /\ IsZero(b) THEN FALSE
           ELSE IF a[1] # b[1] THEN a[1] = 1
           ELSE IF a[1] = 0 THEN MagLt(a, b)
           ELSE MagLt(b, a)

RGt(x, y) == RLt(y, x)

RLe(x, y) == \E a \in {x}, b \in {y} : ~IsNaN(a) /\ ~IsNaN(b) /\ ~RLt(b, a)

RGe(x, y) == RLe(y, x)

\* Python's min(a, b): b when b < a, else a
PyMin(a, b) ==
    CHOOSE z \in {IF RLt(y, x) THEN y ELSE x : x \in {a}, y \in {b}} : TRUE

\* format(x, ".0f") of a number 0 <= x < 2^31, as the integer it prints: the
\* value rounded to the nearest integer, ties to even
Format0f(x) ==
    CHOOSE n \in
        UNION {{LET low == z[1] % 4
                    q == (z[1] \div 4) + z[2] * 4096 + z[3] * 67108864
                IN  IF IsZero(a) THEN 0
                    ELSE IF low = 3 \/ (low = 2 /\ q % 2 = 1) THEN q + 1
                    ELSE q
                  : z \in {ShiftRightJam(a[3], 50 - a[2])}}
                 : a \in {x}} : TRUE

----------------------------------------------------------------------------
(* Energy model.                                                           *)

Genders == {"Male", "Female", "Other"}

ActivityLevels == {"Sedentary", "Moderate", "Active"}

HealthGoals == {"Lose Weight", "Maintain Weight", "Gain Weight"}

\* lines 18-26
calculate_bmr(w, h, a, g) ==
    LET base == RSub(RAdd(RMul(R(10), R(w)), RMul(Frac(625, 100), R(h))),
                     RMul(R(5), R(a)))
    IN  IF g = "Male" THEN RAdd(base, R(5))
        ELSE IF g = "Female" THEN RSub(base, R(161))
        ELSE RSub(base, R(78))

\* lines 41-45
activity_multiplier(level) ==
    CASE level = "Sedentary" -> Frac(12, 10)
      [] level = "Moderate" -> Frac(155, 100)
      [] level = "Active" -> Frac(19, 10)

\* mutant: the deficit and the surplus are exchanged
calculate_daily_calories_swapped(b, level, goal) ==
    LET maintenance_calories == RMul(b, activity_multiplier(level))
    IN  IF goal = "Lose Weight" THEN RMul(maintenance_calories, Frac(115, 100))
        ELSE IF goal = "Gain Weight" THEN RMul(maintenance_calories, Frac(85, 100))
        ELSE maintenance_calories

\* lines 41-56
calculate_daily_calories(b, level, goal) ==
    LET maintenance_calories == RMul(b, activity_multiplier(level))
    IN  IF goal = "Lose Weight" THEN RMul(maintenance_calories, Frac(85, 100))
        ELSE IF goal = "Gain Weight" THEN RMul(maintenance_calories, Frac(115, 100))
        ELSE maintenance_calories

----------------------------------------------------------------------------
(* Text.  A string is a sequence of one-character strings, so that the     *)
(* substring tests and the case folding of the code are computed.  A       *)
(* missing text cell (pandas NaN) is NAText.                               *)

UpperCase ==
    <<"A", "B", "C", "D", "E", "F", "G", "H", "I", "J", "K", "L", "M",
      "N", "O", "P", "Q", "R", "S", "T", "U", "V", "W", "X", "Y", "Z">>

LowerCase ==
    <<"a", "b", "c", "d", "e", "f", "g", "h", "i", "j", "k", "l", "m",
      "n", "o", "p", "q", "r", "s", "t", "u", "v", "w", "x", "y", "z">>

NAText == <<"<NA>">>

\* str.lower() of one character
LowerChar(c) ==
    IF \E i \in 1..Len(UpperCase) : UpperCase[i] = c
    THEN LowerCase[CHOOSE i \in 1..Len(UpperCase) : UpperCase[i] = c]
    ELSE c

Lower(s) == [i \in 1..Len(s) |-> LowerChar(s[i])]

\* sub in s, for Python strings
IsSubstring(sub, s) ==
    \E i \in 0..(Len(s) - Len(sub)) :
        \A k \in 1..Len(sub) : s[i + k] = sub[k]

\* Series.str.contains(pat, case=False, na=False) on one cell, for a
\* pattern of letters
StrContains(cell, pat) ==
    IF cell = NAText THEN FALSE
    ELSE IsSubstring(Lower(pat), Lower(cell))

----------------------------------------------------------------------------
(* The food catalog: a data frame is a record of its rows (in order), of   *)
(* whether it has the optional price_inr column and of whether the         *)
(* is_indian column has been added to it.  A numeric cell is a number, NaN *)
(* (an empty cell) or TextCell (a string that is not a number).            *)

TextCell == <<3, 0, ZeroLimbs>>

\* pd.to_numeric(cell, errors='coerce')
ToNumeric(cell) == IF cell = TextCell THEN NaN ELSE cell

\* lines 84-87 and 135-138 on one row
CoerceRow(row, has_price) ==
    [row EXCEPT !.calories = ToNumeric(@),
                !.protein = ToNumeric(@),
                !.carbs = ToNumeric(@),
                !.fats = ToNumeric(@),
                !.price_inr = IF has_price THEN ToNumeric(@) ELSE @]

CoerceFrame(df) ==
    [df EXCEPT !.rows = [i \in 1..Len(df.rows) |-> CoerceRow(df.rows[i], df.has_price)]]

----------------------------------------------------------------------------
(* Food Catalog Filter.                                                    *)

DietaryPreferences == {"Non-Vegetarian", "Vegetarian", "Vegan"}

BudgetLevels == {"Low", "Medium", "High"}

\* mutant: the Vegetarian preference filters nothing
DietRowsVegetarianUnfiltered(rows, dietary_preference) ==
    LET KeepVegan(r) == r.diet_type = "Vegan"
    IN  IF dietary_preference = "Vegan" THEN SelectSeq(rows, KeepVegan)
        ELSE rows

\* lines 72-77
DietRows(rows, dietary_preference) ==
    LET KeepVegan(r) == r.diet_type = "Vegan"
        KeepVegetarian(r) == r.diet_type \in {"Vegan", "Vegetarian"}
    IN  IF dietary_preference = "Vegan" THEN SelectSeq(rows, KeepVegan)
        ELSE IF dietary_preference = "Vegetarian" THEN SelectSeq(rows, KeepVegetarian)
        ELSE rows

\* lines 80-81: one pass of the loop per allergen of the list
RECURSIVE AllergenRows(_, _)
AllergenRows(rows, allergies) ==
    IF allergies = <<>> THEN rows
    ELSE LET Keep(r) == ~StrContains(r.allergens, Head(allergies))
         IN  AllergenRows(SelectSeq(rows, Keep), Tail(allergies))

low_budget_price == 15

medium_budget_price == 25

\* lines 90-97, on coerced rows: the comparison with a NaN price is false
BudgetRows(rows, has_price, budget_level) ==
    LET KeepLow(r) == RLe(r.price_inr, R(low_budget_price))
        KeepMedium(r) == RLe(r.price_inr, R(medium_budget_price))
    IN  IF ~has_price THEN rows
        ELSE IF budget_level = "Low" THEN SelectSeq(rows, KeepLow)
        ELSE IF budget_level = "Medium" THEN SelectSeq(rows, KeepMedium)
        ELSE rows

\* the frame filter_foods_by_preferences returns
filter_foods_by_preferences(fd, dietary_preference, allergies, budget_level) ==
    LET picked == AllergenRows(DietRows(fd.rows, dietary_preference), allergies)
        coerced == CoerceFrame([fd EXCEPT !.rows = picked])
    IN  [coerced EXCEPT !.rows = BudgetRows(coerced.rows, fd.has_price, budget_level)]

\* filtered_data is food_data itself (line 77) when line 87 assigns to it:
\* no boolean indexing has made a copy
CoercesCatalog(dietary_preference, allergies) ==
    /\ dietary_preference \notin {"Vegan", "Vegetarian"}
    /\ allergies = <<>>

\* the returned frame is still the caller's food_data object
ReturnsCatalog(fd, dietary_preference, allergies, budget_level) ==
    /\ CoercesCatalog(dietary_preference, allergies)
    /\ (~fd.has_price \/ budget_level \notin {"Low", "Medium"})

\* food_data after the call
CatalogAfterFilter(fd, dietary_preference, allergies) ==
    IF CoercesCatalog(dietary_preference, allergies) THEN CoerceFrame(fd) ELSE fd

----------------------------------------------------------------------------
(* Meal Composer.                                                          *)

\* lines 112-117
adjust_portion_for_age(portion, a) ==
    IF a < 18 THEN RMul(portion, Frac(8, 10))
    ELSE IF a > 65 THEN RMul(portion, Frac(9, 10))
    ELSE portion

indian_foods ==
    << <<"P", "a", "r", "a", "t", "h", "a">>,
       <<"R", "o", "t", "i">>,
       <<"C", "h", "a", "p", "a", "t", "i">>,
       <<"D", "a", "l">>,
       <<"P", "a", "n", "e", "e", "r">>,
       <<"C", "u", "r", "r", "y">>,
       <<"B", "h", "a", "j", "i">>,
       <<"S", "a", "m", "o", "s", "a">>,
       <<"I", "d", "l", "i">>,
       <<"D", "o", "s", "a">>,
       <<"C", "h", "u", "t", "n", "e", "y">>,
       <<"R", "a", "i", "t", "a">>,
       <<"L", "a", "s", "s", "i">>,
       <<"P", "u", "l", "a", "o">>,
       <<"K", "h", "i", "c", "h", "d", "i">>,
       <<"U", "p", "m", "a">>,
       <<"P", "o", "h", "a">>,
       <<"U", "t", "t", "a", "p", "a", "m">>,
       <<"V", "a", "d", "a">>,
       <<"S", "a", "m", "b", "a", "r">>,
       <<"R", "a", "s", "a", "m">>,
       <<"B", "h", "i", "n", "d", "i">>,
       <<"B", "a", "i", "n", "g", "a", "n">>,
       <<"B", "h", "a", "r", "t", "a">>,
       <<"A", "l", "o", "o">>,
       <<"G", "o", "b", "i">>,
       <<"M", "e", "t", "h", "i">>,
       <<"P", "a", "l", "a", "k">> >>

\* lines 156-157
is_indian_food(food_name) ==
    \E k \in 1..Len(indian_foods) :
        IsSubstring(Lower(indian_foods[k]), Lower(food_name))

\* line 141
MealTypeRows(rows, mt) ==
    LET Keep(r) == StrContains(r.meal_type, mt)
    IN  SelectSeq(rows, Keep)

\* the sub-filter finds nothing and meal_foods is filtered_foods itself (line 145)
FallsBack(rows, mt) == Len(MealTypeRows(rows, mt)) = 0

\* line 160
FlagRows(rows) ==
    [i \in 1..Len(rows) |-> [rows[i] EXCEPT !.is_indian = is_indian_food(rows[i].food)]]

\* descending sort keys of sort_values: True before False, a larger protein
\* first and NaN last
IndianFirst(a, b) == a.is_indian /\ ~b.is_indian

ProteinFirst(a, b) ==
    \/ RGt(a.protein, b.protein)
    \/ (~IsNaN(a.protein) /\ IsNaN(b.protein))

IndianThenProtein(a, b) ==
    \/ IndianFirst(a, b)
    \/ (a.is_indian = b.is_indian /\ ProteinFirst(a, b))

\* a sorts before b under the sort columns by
SortsBefore(a, b, by) ==
    IF by = "is_indian,protein" THEN IndianThenProtein(a, b)
    ELSE IF by = "is_indian" THEN IndianFirst(a, b)
    ELSE ProteinFirst(a, b)

\* DataFrame.sort_values(by, descending): ties keep their former order (the
\* order among ties is never read: the rows are only sampled)
SortRows(rows, by) ==
    LET n == Len(rows)
        rank(i) == 1 + Cardinality({j \in 1..n :
                        \/ SortsBefore(rows[j], rows[i], by)
                        \/ (~SortsBefore(rows[i], rows[j], by) /\ j < i)})
    IN  [p \in 1..n |-> rows[CHOOSE i \in 1..n : rank(i) = p]]

\* lines 141-170: the candidate frame of one meal
MealFoods(ff, mt, level, region) ==
    LET sub == MealTypeRows(ff.rows, mt)
        cand == IF Len(sub) = 0 THEN ff.rows ELSE sub
    IN  IF region = "Indian"
        THEN [ff EXCEPT !.has_is_indian = TRUE,
                        !.rows = IF level = "Active"
                                 THEN SortRows(FlagRows(cand), "is_indian,protein")
                                 ELSE SortRows(FlagRows(cand), "is_indian")]
        ELSE [ff EXCEPT !.rows = IF level = "Active"
                                 THEN SortRows(cand, "protein")
                                 ELSE cand]

\* filtered_foods after line 160 assigned the is_indian column to it
FlagFrame(ff) == [ff EXCEPT !.has_is_indian = TRUE, !.rows = FlagRows(ff.rows)]

max_attempts == 50

base_portion == 100

min_portion == 10

max_foods == 5

min_foods == 3

\* mutant: the loop is not capped by the attempt budget
LoopContinuesUnbounded(current, target, n) == RLt(current, target)

\* line 185
LoopContinues(current, target, n) ==
    RLt(current, target) /\ n < max_attempts

\* mutant: the draw is always made from all candidates
SamplingPoolAll(rows, categories, chosen) == rows

\* lines 187-192: the frame sample(1) draws from
SamplingPool(rows, categories, chosen) ==
    LET Unselected(r) == r.category \notin categories
        unselected_categories == SelectSeq(rows, Unselected)
    IN  IF Len(unselected_categories) > 0 /\ chosen < max_foods
        THEN unselected_categories
        ELSE rows

\* lines 205-210
FoodPrice(df, food) == IF df.has_price THEN food.price_inr ELSE R(0)

\* mutant: the portion is the base portion, whatever the remaining calories
TargetPortionFull(food_calories, target, current) == R(base_portion)

\* lines 216-220
TargetPortion(food_calories, target, current) ==
    LET remaining_calories == RSub(target, current)
    IN  IF RGt(food_calories, R(0))
        THEN PyMin(R(base_portion),
                   RMul(RDiv(remaining_calories, food_calories), R(base_portion)))
        ELSE R(base_portion)

\* mutant: the minimum portion is taken to be 1 unit
PortionTooSmallBelowOne(adjusted_portion) == RLt(adjusted_portion, R(1))

\* line 226
PortionTooSmall(adjusted_portion) == RLt(adjusted_portion, R(min_portion))

\* line 231
PortionFactor(adjusted_portion) == RDiv(adjusted_portion, R(base_portion))

\* line 236
ActualPrice(food_price, portion_factor) ==
    RDiv(RMul(food_price, portion_factor), R(100))

\* line 239
Overshoots(current, actual_calories, target) ==
    RGt(RAdd(current, actual_calories), RMul(target, Frac(11, 10)))

\* lines 244-253; the portion is the text of format(adjusted_portion, ".0f")
\* followed by "g", kept as the number it prints
FoodEntry(df, food, adjusted_portion) ==
    CHOOSE entry \in
        {[food |-> food.food,
          portion |-> Format0f(adjusted_portion),
          calories |-> RMul(food.calories, portion_factor),
          protein |-> RMul(food.protein, portion_factor),
          carbs |-> RMul(food.carbs, portion_factor),
          fats |-> RMul(food.fats, portion_factor),
          category |-> food.category,
          price |-> ActualPrice(FoodPrice(df, food), portion_factor)]
            : portion_factor \in {PortionFactor(adjusted_portion)}} : TRUE

\* mutant: the amount is added to the total twice
UpdateTotalTwice(total, actual) == RAdd(RAdd(total, actual), actual)

\* lines 256-260: total += actual
UpdateTotal(total, actual) == RAdd(total, actual)

\* mutant: two foods are enough to stop on the calories
StopsEarlyAtTwo(current, target, chosen) ==
    \/ (RGe(current, RMul(target, Frac(9, 10))) /\ chosen >= 2)
    \/ chosen >= max_foods

\* mutant: the meal is full at 6 foods
StopsEarlyAtSix(current, target, chosen) ==
    \/ (RGe(current, RMul(target, Frac(9, 10))) /\ chosen >= min_foods)
    \/ chosen >= 6

\* line 264
StopsEarly(current, target, chosen) ==
    \/ (RGe(current, RMul(target, Frac(9, 10))) /\ chosen >= min_foods)
    \/ chosen >= max_foods

----------------------------------------------------------------------------
(* Words of the code and of the requests.                                  *)

Breakfast == <<"B", "r", "e", "a", "k", "f", "a", "s", "t">>

Lunch == <<"L", "u", "n", "c", "h">>

Dinner == <<"D", "i", "n", "n", "e", "r">>

Snack == <<"S", "n", "a", "c", "k">>

Snack1 == <<"S", "n", "a", "c", "k", " ", "1">>

Snack2 == <<"S", "n", "a", "c", "k", " ", "2">>

MorningSnack == <<"M", "o", "r", "n", "i", "n", "g", " ", "S", "n", "a", "c", "k">>

AfternoonSnack == <<"A", "f", "t", "e", "r", "n", "o", "o", "n", " ", "S", "n", "a", "c", "k">>

EveningSnack == <<"E", "v", "e", "n", "i", "n", "g", " ", "S", "n", "a", "c", "k">>

Dairy == <<"D", "a", "i", "r", "y">>

Nuts == <<"N", "u", "t", "s">>

Gluten == <<"G", "l", "u", "t", "e", "n">>

Soy == <<"S", "o", "y">>

----------------------------------------------------------------------------
(* Catalogs the model is run on (foods.csv is read once, app.py:173-187).  *)

\* a well-formed catalog with a price column; one item has no price
PricedCatalog ==
    [rows |-> <<
       [food |-> <<"P", "o", "h", "a">>,
        diet_type |-> "Vegan", allergens |-> <<"P", "e", "a", "n", "u", "t", "s">>,
        meal_type |-> <<"B", "r", "e", "a", "k", "f", "a", "s", "t">>,
        category |-> "Grains",
        calories |-> R(200), protein |-> R(4), carbs |-> R(40), fats |-> R(5),
        price_inr |-> R(20), is_indian |-> FALSE],
       [food |-> <<"D", "a", "l", " ", "T", "a", "d", "k", "a">>,
        diet_type |-> "Vegan", allergens |-> NAText,
        meal_type |-> <<"L", "u", "n", "c", "h">>,
        category |-> "Pulses",
        calories |-> R(100), protein |-> R(8), carbs |-> R(16), fats |-> R(2),
        price_inr |-> R(10), is_indian |-> FALSE],
       [food |-> <<"P", "a", "n", "e", "e", "r", " ", "C", "u", "r", "r", "y">>,
        diet_type |-> "Vegetarian", allergens |-> <<"D", "a", "i", "r", "y">>,
        meal_type |-> <<"D", "i", "n", "n", "e", "r">>,
        category |-> "Dairy",
        calories |-> R(250), protein |-> R(16), carbs |-> R(4), fats |-> R(20),
        price_inr |-> R(30), is_indian |-> FALSE],
       [food |-> <<"C", "h", "i", "c", "k", "e", "n", " ", "S", "o", "u", "p">>,
        diet_type |-> "Non-Vegetarian", allergens |-> NAText,
        meal_type |-> <<"s", "n", "a", "c", "k", "s">>,
        category |-> "Meat",
        calories |-> R(50), protein |-> R(8), carbs |-> R(2), fats |-> R(1),
        price_inr |-> NaN, is_indian |-> FALSE]
     >>,
     has_price |-> TRUE, has_is_indian |-> FALSE]

\* a catalog with cells that are not numbers
MalformedCatalog ==
    [rows |-> <<
       [food |-> <<"R", "o", "t", "i">>,
        diet_type |-> "Vegetarian", allergens |-> <<"G", "l", "u", "t", "e", "n">>,
        meal_type |-> <<"L", "u", "n", "c", "h", ",", "D", "i", "n", "n", "e", "r">>,
        category |-> "Grains",
        calories |-> TextCell, protein |-> R(3), carbs |-> R(18), fats |-> R(1),
        price_inr |-> R(5), is_indian |-> FALSE],
       [food |-> <<"L", "a", "s", "s", "i">>,
        diet_type |-> "Vegetarian", allergens |-> <<"D", "a", "i", "r", "y">>,
        meal_type |-> <<"B", "r", "e", "a", "k", "f", "a", "s", "t">>,
        category |-> "Beverages",
        calories |-> R(80), protein |-> TextCell, carbs |-> R(12), fats |-> R(3),
        price_inr |-> R(20), is_indian |-> FALSE],
       [food |-> <<"F", "r", "u", "i", "t", " ", "S", "a", "l", "a", "d">>,
        diet_type |-> "Vegan", allergens |-> NAText,
        meal_type |-> <<"S", "n", "a", "c", "k">>,
        category |-> "Fruits",
        calories |-> R(50), protein |-> R(1), carbs |-> R(12), fats |-> R(0),
        price_inr |-> TextCell, is_indian |-> FALSE]
     >>,
     has_price |-> TRUE, has_is_indian |-> FALSE]

\* a catalog without the price_inr column and without a snack
UnpricedCatalog ==
    [rows |-> <<
       [food |-> <<"A", "l", "o", "o", " ", "P", "a", "r", "a", "t", "h", "a">>,
        diet_type |-> "Vegetarian", allergens |-> <<"G", "l", "u", "t", "e", "n">>,
        meal_type |-> <<"B", "r", "e", "a", "k", "f", "a", "s", "t", ",", "L", "u", "n", "c", "h">>,
        category |-> "Grains",
        calories |-> R(200), protein |-> R(5), carbs |-> R(30), fats |-> R(8),
        price_inr |-> NaN, is_indian |-> FALSE],
       [food |-> <<"C", "u", "r", "d">>,
        diet_type |-> "Vegetarian", allergens |-> <<"D", "a", "i", "r", "y">>,
        meal_type |-> <<"L", "u", "n", "c", "h", ",", "D", "i", "n", "n", "e", "r">>,
        category |-> "Dairy",
        calories |-> R(100), protein |-> R(4), carbs |-> R(5), fats |-> R(4),
        price_inr |-> NaN, is_indian |-> FALSE]
     >>,
     has_price |-> FALSE, has_is_indian |-> FALSE]

\* a catalog with several candidates per meal type
VariedCatalog ==
    [rows |-> <<
       [food |-> <<"M", "a", "s", "a", "l", "a", " ", "D", "o", "s", "a">>,
        diet_type |-> "Vegetarian", allergens |-> NAText,
        meal_type |-> <<"B", "r", "e", "a", "k", "f", "a", "s", "t", ",", "L", "u", "n", "c", "h">>,
        category |-> "Grains",
        calories |-> R(200), protein |-> R(4), carbs |-> R(30), fats |-> R(6),
        price_inr |-> R(25), is_indian |-> FALSE],
       [food |-> <<"V", "e", "g", " ", "P", "u", "l", "a", "o">>,
        diet_type |-> "Vegan", allergens |-> NAText,
        meal_type |-> <<"L", "u", "n", "c", "h", ",", "D", "i", "n", "n", "e", "r">>,
        category |-> "Grains",
        calories |-> R(125), protein |-> R(3), carbs |-> R(25), fats |-> R(2),
        price_inr |-> R(15), is_indian |-> FALSE],
       [food |-> <<"R", "a", "j", "m", "a">>,
        diet_type |-> "Vegan", allergens |-> NAText,
        meal_type |-> <<"L", "u", "n", "c", "h", ",", "D", "i", "n", "n", "e", "r">>,
        category |-> "Pulses",
        calories |-> R(100), protein |-> R(6), carbs |-> R(18), fats |-> R(1),
        price_inr |-> R(12), is_indian |-> FALSE],
       [food |-> <<"O", "m", "e", "l", "e", "t", "t", "e">>,
        diet_type |-> "Non-Vegetarian", allergens |-> <<"E", "g", "g", "s">>,
        meal_type |-> <<"B", "r", "e", "a", "k", "f", "a", "s", "t">>,
        category |-> "Eggs",
        calories |-> R(160), protein |-> R(10), carbs |-> R(1), fats |-> R(12),
        price_inr |-> R(10), is_indian |-> FALSE],
       [food |-> <<"B", "l", "a", "c", "k", " ", "C", "o", "f", "f", "e", "e">>,
        diet_type |-> "Vegan", allergens |-> NAText,
        meal_type |-> <<"B", "r", "e", "a", "k", "f", "a", "s", "t", ",", "S", "n", "a", "c", "k">>,
        category |-> "Beverages",
        calories |-> R(0), protein |-> R(0), carbs |-> R(0), fats |-> R(0),
        price_inr |-> R(8), is_indian |-> FALSE]
     >>,
     has_price |-> TRUE, has_is_indian |-> FALSE]

Catalogs == <<PricedCatalog, MalformedCatalog, UnpricedCatalog, VariedCatalog>>

----------------------------------------------------------------------------
(* Plan Assembler: the meal-slot profiles.                                 *)

\* lines 308-314
teen_distribution ==
    << [name |-> Breakfast, fraction |-> Frac(25, 100)],
       [name |-> Lunch, fraction |-> Frac(3, 10)],
       [name |-> Dinner, fraction |-> Frac(25, 100)],
       [name |-> Snack1, fraction |-> Frac(1, 10)],
       [name |-> Snack2, fraction |-> Frac(1, 10)] >>

\* lines 317-324
senior_distribution ==
    << [name |-> Breakfast, fraction |-> Frac(2, 10)],
       [name |-> MorningSnack, fraction |-> Frac(1, 10)],
       [name |-> Lunch, fraction |-> Frac(25, 100)],
       [name |-> AfternoonSnack, fraction |-> Frac(1, 10)],
       [name |-> Dinner, fraction |-> Frac(25, 100)],
       [name |-> EveningSnack, fraction |-> Frac(1, 10)] >>

\* lines 327-332
adult_distribution ==
    << [name |-> Breakfast, fraction |-> Frac(2, 10)],
       [name |-> Lunch, fraction |-> Frac(35, 100)],
       [name |-> EveningSnack, fraction |-> Frac(15, 100)],
       [name |-> Dinner, fraction |-> Frac(3, 10)] >>

\* mutant: age 18 is put in the teen bracket and age 65 in the senior one
MealDistributionInclusive(a) ==
    IF a <= 18 THEN teen_distribution
    ELSE IF a >= 65 THEN senior_distribution
    ELSE adult_distribution

\* lines 306-332
MealDistribution(a) ==
    IF a < 18 THEN teen_distribution
    ELSE IF a > 65 THEN senior_distribution
    ELSE adult_distribution

\* lines 342-349
MealTypeOf(meal_name) ==
    IF IsSubstring(Breakfast, meal_name) THEN Breakfast
    ELSE IF IsSubstring(Lunch, meal_name) THEN Lunch
    ELSE IF IsSubstring(Dinner, meal_name) THEN Dinner
    ELSE Snack

\* line 339
MealCalories(daily, fraction) == RMul(daily, fraction)

\* mutant: the empty result of the filter is not detected
NoFoodsNever(ff) == FALSE

\* line 302
NoFoods(ff) == Len(ff.rows) = 0

----------------------------------------------------------------------------
(* State.                                                                  *)

VARIABLES
    pc,                  \* where the request is
    \* the energy model's request and results
    weight, height, gender, bmr, calories_by_goal,
    \* generate_diet_plan: arguments
    catalog_id,          \* which catalog was loaded as food_data
    food_data, daily_calories, age, dietary_preference, allergies,
    activity_level, budget_level, regional_preference,
    \* generate_diet_plan: locals and result
    filtered_foods,
    filtered_is_catalog, \* filtered_foods is the food_data object itself
    meal_distribution, slot, diet_plan, plan_cost, returned,
    composer_targets,    \* the target_calories of the calls made so far
    \* select_foods_for_meal: arguments, locals and result
    target_calories, meal_type, meal_foods,
    selected_foods, current_calories, protein_sum, carbs_sum, fats_sum,
    total_cost, selected_categories, attempts, meal_result

energyVars == <<weight, height, gender, bmr, calories_by_goal>>

requestVars ==
    <<catalog_id, daily_calories, age, dietary_preference, allergies,
      activity_level, budget_level, regional_preference>>

planVars ==
    <<meal_distribution, slot, diet_plan, plan_cost, returned, composer_targets>>

frameVars == <<food_data, filtered_foods, filtered_is_catalog>>

callVars == <<target_calories, meal_type>>

mealVars ==
    <<meal_foods, selected_foods, current_calories, protein_sum, carbs_sum,
      fats_sum, total_cost, selected_categories, attempts>>

vars ==
    <<pc, energyVars, requestVars, planVars, frameVars, callVars, mealVars,
      meal_result>>

EmptyFrame == [rows |-> <<>>, has_price |-> FALSE, has_is_indian |-> FALSE]

NoMeal ==
    [foods |-> <<>>, calories |-> R(0),
     macros |-> [protein |-> R(0), carbs |-> R(0), fats |-> R(0)],
     cost |-> R(0)]

EmptyPlan == [meals |-> <<>>, has_total_cost |-> FALSE, total_cost |-> R(0)]

----------------------------------------------------------------------------
(* Inputs.                                                                 *)

MaxDailyStep == 2

MaxTargetStep == 2

\* daily calorie targets of the plan requests; the float products of 499 and
\* the fractions of a profile do not add up to 499
DailyTargets == {R(499 * k) : k \in 1..MaxDailyStep}

\* calorie targets of direct calls of the meal composer; the target of a
\* daily need below zero (a BMR below zero) is below zero, and the portion
\* that fills a target of 109 from a food of 200 kcal is not a float
MealTargets ==
    {R(-15), R(15), R(109)} \cup {R(150 * k) : k \in 1..MaxTargetStep}

\* ages on both sides of the two bracket limits
Ages == {17, 18, 65, 66}

AllergyLists == {<<>>, <<Dairy, Nuts>>}

Regions == {"Indian", "None"}

PlanCatalogIds == {1, 2, 3}

MealCatalogIds == {1, 2, 4}

MealTypes == {Breakfast, Lunch, Dinner, Snack}

\* the limits of the form of the application (app.py:195-198)
min_age == 1

max_age == 120

min_weight == 30

min_height == 100

\* arguments of direct calls of calculate_bmr, which has no guard: a positive
\* weight and height and an age of at least 1; the smallest are below the
\* limits of the form, the others are the limits and the defaults of the form
Weights == {1, min_weight, 70}

Heights == {1, min_height, 170}

EnergyAges == {min_age, 30, max_age}

\* the variables of select_foods_for_meal before its first call
MealIdle ==
    /\ meal_foods = EmptyFrame
    /\ selected_foods = <<>>
    /\ current_calories = R(0)
    /\ protein_sum = R(0)
    /\ carbs_sum = R(0)
    /\ fats_sum = R(0)
    /\ total_cost = R(0)
    /\ selected_categories = {}
    /\ attempts = 0
    /\ meal_result = NoMeal

PlanIdle ==
    /\ filtered_foods = EmptyFrame
    /\ filtered_is_catalog = FALSE
    /\ meal_distribution = <<>>
    /\ slot = 0
    /\ diet_plan = EmptyPlan
    /\ plan_cost = R(0)
    /\ returned = "pending"
    /\ composer_targets = <<>>

\* the defaults of the form, and nothing computed yet
EnergyIdle ==
    /\ weight = 70
    /\ height = 170
    /\ gender = "Male"
    /\ bmr = R(0)
    /\ calories_by_goal = <<>>

\* a request to generate_diet_plan (app.py:242-251, which always asks for
\* the "Indian" region)
Init ==
    /\ pc = "request"
    /\ catalog_id \in PlanCatalogIds
    /\ food_data = Catalogs[catalog_id]
    /\ daily_calories \in DailyTargets
    /\ age \in Ages
    /\ dietary_preference \in DietaryPreferences
    /\ allergies \in AllergyLists
    /\ activity_level \in {"Sedentary", "Active"}
    /\ budget_level \in BudgetLevels
    /\ regional_preference = "Indian"
    /\ target_calories = R(0)
    /\ meal_type = Snack
    /\ PlanIdle
    /\ MealIdle
    /\ EnergyIdle

\* a direct call of select_foods_for_meal on the frame the filter returned
\* for a request without restrictions: the caller's catalog itself, coerced
InitMeal ==
    /\ pc = "call"
    /\ catalog_id \in MealCatalogIds
    /\ daily_calories = R(0)
    /\ age \in Ages
    /\ dietary_preference = "Non-Vegetarian"
    /\ allergies = <<>>
    /\ activity_level \in {"Sedentary", "Active"}
    /\ budget_level = "High"
    /\ food_data =
           CatalogAfterFilter(Catalogs[catalog_id], dietary_preference, allergies)
    /\ regional_preference \in Regions
    /\ target_calories \in MealTargets
    /\ meal_type \in MealTypes
    /\ filtered_foods =
           filter_foods_by_preferences(Catalogs[catalog_id], dietary_preference,
                                       allergies, budget_level)
    /\ filtered_is_catalog =
           ReturnsCatalog(Catalogs[catalog_id], dietary_preference, allergies,
                          budget_level)
    /\ meal_distribution = <<>>
    /\ slot = 0
    /\ diet_plan = EmptyPlan
    /\ plan_cost = R(0)
    /\ returned = "pending"
    /\ composer_targets = <<>>
    /\ MealIdle
    /\ EnergyIdle

\* the arguments of a direct call of calculate_bmr and of the calls of
\* calculate_daily_calories on its result; the application makes these
\* calls (app.py:213-216) only on the arguments that are Submittable
InitEnergy ==
    /\ pc = "energy"
    /\ weight \in Weights
    /\ height \in Heights
    /\ age \in EnergyAges
    /\ gender \in Genders
    /\ activity_level \in ActivityLevels
    /\ bmr = R(0)
    /\ calories_by_goal = <<>>
    /\ catalog_id = 1
    /\ food_data = Catalogs[catalog_id]
    /\ daily_calories = R(0)
    /\ dietary_preference = "Vegetarian"
    /\ allergies = <<>>
    /\ budget_level = "Medium"
    /\ regional_preference = "Indian"
    /\ target_calories = R(0)
    /\ meal_type = Snack
    /\ PlanIdle
    /\ MealIdle

----------------------------------------------------------------------------
(* Energy model: calculate_bmr, then calculate_daily_calories on its result *)
(* for each goal.                                                          *)

\* the form of the application accepts the arguments (app.py:195-198)
Submittable ==
    /\ age \in min_age..max_age
    /\ weight >= min_weight
    /\ height >= min_height

\* lines 5-26, called on the arguments

CalculateBmr ==
    /\ pc = "energy"
    /\ bmr' = calculate_bmr(weight, height, age, gender)
    /\ pc' = "bmr"
    /\ UNCHANGED <<weight, height, gender, calories_by_goal, requestVars,
                   planVars, frameVars, callVars, mealVars, meal_result>>

\* lines 28-56, called on the BMR for a goal not yet computed
CalculateDailyCalories ==
    /\ pc = "bmr"
    /\ \E goal \in HealthGoals \ DOMAIN calories_by_goal :
          calories_by_goal' =
              (goal :> calculate_daily_calories(bmr, activity_level, goal))
                  @@ calories_by_goal
    /\ UNCHANGED <<pc, weight, height, gender, bmr, requestVars, planVars,
                   frameVars, callVars, mealVars, meal_result>>

----------------------------------------------------------------------------
(* generate_diet_plan.                                                     *)

\* lines 299-336: filter once, fail on an empty result, pick the profile
GeneratePlan ==
    /\ pc = "request"
    /\ \E ff \in {filter_foods_by_preferences(food_data, dietary_preference,
                                                allergies, budget_level)} :
           /\ filtered_foods' = ff
           /\ filtered_is_catalog' =
                  ReturnsCatalog(food_data, dietary_preference, allergies,
                                 budget_level)
           /\ food_data' =
                  CatalogAfterFilter(food_data, dietary_preference, allergies)
           /\ IF NoFoods(ff)
              THEN /\ returned' = "None"
                   /\ pc' = "done"
                   /\ UNCHANGED <<meal_distribution, slot>>
              ELSE /\ meal_distribution' = MealDistribution(age)
                   /\ slot' = 1
                   /\ pc' = "slot"
                   /\ UNCHANGED returned
    /\ UNCHANGED <<diet_plan, plan_cost, composer_targets, energyVars,
                   requestVars, callVars, mealVars, meal_result>>

\* lines 338-359: the next slot's target and meal type, and the call
NextSlot ==
    /\ pc = "slot"
    /\ slot <= Len(meal_distribution)
    /\ \E meal_calories \in
             {MealCalories(daily_calories, meal_distribution[slot].fraction)} :
           /\ target_calories' = meal_calories
           /\ composer_targets' = Append(composer_targets, meal_calories)
    /\ meal_type' = MealTypeOf(meal_distribution[slot].name)
    /\ pc' = "call"
    /\ UNCHANGED <<meal_distribution, slot, diet_plan, plan_cost, returned,
                   energyVars, requestVars, frameVars, mealVars, meal_result>>

\* lines 361-362
StoreMeal ==
    /\ pc = "returned"
    /\ diet_plan' =
           [diet_plan EXCEPT !.meals =
               Append(@, [name |-> meal_distribution[slot].name,
                          meal |-> meal_result])]
    /\ plan_cost' = RAdd(plan_cost, meal_result.cost)
    /\ slot' = slot + 1
    /\ pc' = "slot"
    /\ UNCHANGED <<meal_distribution, returned, composer_targets, energyVars,
                   requestVars, frameVars, callVars, mealVars, meal_result>>

\* lines 365-367
FinishPlan ==
    /\ pc = "slot"
    /\ slot > Len(meal_distribution)
    /\ diet_plan' = [diet_plan EXCEPT !.has_total_cost = TRUE,
                                      !.total_cost = plan_cost]
    /\ returned' = "plan"
    /\ pc' = "done"
    /\ UNCHANGED <<meal_distribution, slot, plan_cost, composer_targets,
                   energyVars, requestVars, frameVars, callVars, mealVars,
                   meal_result>>

----------------------------------------------------------------------------
(* select_foods_for_meal.                                                  *)

\* lines 135-183: coerce, sub-filter, flag and sort, and reset the locals
BeginMeal ==
    /\ pc = "call"
    /\ \E ff \in {CoerceFrame(filtered_foods)} :
       \E flagged \in {IF regional_preference = "Indian"
                           /\ FallsBack(ff.rows, meal_type)
                        THEN FlagFrame(ff)
                        ELSE ff} :
           /\ filtered_foods' = flagged
           /\ food_data' = IF filtered_is_catalog THEN flagged ELSE food_data
           /\ meal_foods' = MealFoods(ff, meal_type, activity_level,
                                      regional_preference)
    /\ selected_foods' = <<>>
    /\ current_calories' = R(0)
    /\ protein_sum' = R(0)
    /\ carbs_sum' = R(0)
    /\ fats_sum' = R(0)
    /\ total_cost' = R(0)
    /\ selected_categories' = {}
    /\ attempts' = 0
    /\ pc' = "loop"
    /\ UNCHANGED <<filtered_is_catalog, energyVars, requestVars, planVars,
                   callVars, meal_result>>

\* lines 185-267: one iteration of the selection loop, on the row drawn
Attempt ==
    /\ pc = "loop"
    /\ LoopContinues(current_calories, target_calories, attempts)
    /\ \E pool \in {SamplingPool(meal_foods.rows, selected_categories,
                                  Len(selected_foods))} :
       \E i \in 1..Len(pool) :
       \E food \in {pool[i]} :
       \E target_portion \in {TargetPortion(food.calories, target_calories,
                                             current_calories)} :
       \E adjusted_portion \in {adjust_portion_for_age(target_portion, age)} :
       \E entry \in {FoodEntry(meal_foods, food, adjusted_portion)} :
       \E foods \in {Append(selected_foods, entry)} :
       \E calories \in {UpdateTotal(current_calories, entry.calories)} :
          IF PortionTooSmall(adjusted_portion)
             \/ Overshoots(current_calories, entry.calories, target_calories)
          THEN /\ attempts' = attempts + 1
               /\ UNCHANGED <<pc, selected_foods, current_calories,
                              protein_sum, carbs_sum, fats_sum,
                              total_cost, selected_categories>>
          ELSE /\ selected_foods' = foods
               /\ current_calories' = calories
               /\ protein_sum' = UpdateTotal(protein_sum, entry.protein)
               /\ carbs_sum' = UpdateTotal(carbs_sum, entry.carbs)
               /\ fats_sum' = UpdateTotal(fats_sum, entry.fats)
               /\ total_cost' = UpdateTotal(total_cost, entry.price)
               /\ selected_categories' =
                      selected_categories \cup {entry.category}
               /\ IF StopsEarly(calories, target_calories, Len(foods))
                  THEN pc' = "break" /\ UNCHANGED attempts
                  ELSE pc' = "loop" /\ attempts' = attempts + 1
    /\ UNCHANGED <<meal_foods, energyVars, requestVars, planVars, frameVars,
                   callVars, meal_result>>

\* lines 270-279, after the loop has ended or was left by break
ReturnMeal ==
    /\ pc \in {"loop", "break"}
    /\ pc = "loop" =>
           ~LoopContinues(current_calories, target_calories, attempts)
    /\ meal_result' =
           [foods |-> selected_foods,
            calories |-> current_calories,
            macros |-> [protein |-> protein_sum, carbs |-> carbs_sum,
                        fats |-> fats_sum],
            cost |-> total_cost]
    /\ pc' = "returned"
    /\ UNCHANGED <<energyVars, requestVars, planVars, frameVars, callVars,
                   mealVars>>

----------------------------------------------------------------------------
(* Specifications.                                                         *)

Next ==
    \/ GeneratePlan
    \/ NextSlot
    \/ BeginMeal
    \/ Attempt
    \/ ReturnMeal
    \/ StoreMeal
    \/ FinishPlan

\* generate_diet_plan on a request
Spec == Init /\ [][Next]_vars

NextMeal ==
    \/ BeginMeal
    \/ Attempt
    \/ ReturnMeal

\* select_foods_for_meal called on a filtered catalog
SpecMeal == InitMeal /\ [][NextMeal]_vars

NextEnergy ==
    \/ CalculateBmr
    \/ CalculateDailyCalories

\* calculate_bmr, then calculate_daily_calories for each goal
SpecEnergy == InitEnergy /\ [][NextEnergy]_vars

----------------------------------------------------------------------------
(* Properties.                                                             *)

\* x == y on floats: false when either is NaN
REq(x, y) == ~IsNaN(x) /\ ~IsNaN(y) /\ ~RLt(x, y) /\ ~RLt(y, x)

\* abs(x)
RAbs(x) == IF x[1] = 1 THEN RNeg(x) ELSE x

\* the relative rounding error allowed between a float result and the real
\* number it stands for: 1e-9
rounding_tolerance == Frac(1, 1000000000)

\* x <= y, up to rounding
LeUpToRounding(x, y) ==
    RLe(x, RAdd(y, RMul(RAbs(y), rounding_tolerance)))

\* x == y, up to rounding
EqUpToRounding(x, y) ==
    RLe(RAbs(RSub(x, y)), RMul(RAbs(y), rounding_tolerance))

\* sum(values), from 0 and in order
RECURSIVE SumOf(_)
SumOf(values) ==
    IF values = <<>> THEN R(0)
    ELSE RAdd(SumOf(SubSeq(values, 1, Len(values) - 1)), values[Len(values)])

CaloriesOf(entries) == [i \in 1..Len(entries) |-> entries[i].calories]

ProteinOf(entries) == [i \in 1..Len(entries) |-> entries[i].protein]

CarbsOf(entries) == [i \in 1..Len(entries) |-> entries[i].carbs]

FatsOf(entries) == [i \in 1..Len(entries) |-> entries[i].fats]

PriceOf(entries) == [i \in 1..Len(entries) |-> entries[i].price]

\* the loaded catalog, as read from the file
LoadedCatalog == Catalogs[catalog_id]

\* every nutrition value of the frame is a number >= 0
NonNegativeNutrition(df) ==
    \A i \in 1..Len(df.rows) :
        /\ RGe(df.rows[i].calories, R(0))
        /\ RGe(df.rows[i].protein, R(0))
        /\ RGe(df.rows[i].carbs, R(0))
        /\ RGe(df.rows[i].fats, R(0))

InComposer == pc \in {"loop", "break", "returned"}

\* C1: with a target > 0 and non-negative nutrition values, the aggregate
\* calories never exceed 1.1 * target_calories, after any attempt of the loop
\* and in the MealResult returned.
C1_NoOvershoot ==
    (InComposer /\ RGt(target_calories, R(0))
        /\ NonNegativeNutrition(filtered_foods))
    => /\ RLe(current_calories, RMul(target_calories, Frac(11, 10)))
       /\ pc = "returned" =>
              RLe(meal_result.calories, RMul(target_calories, Frac(11, 10)))

\* C1 witness: a meal of several foods is returned after some attempts with
\* its calories exactly at the target
C1_Witness ==
    /\ pc = "returned"
    /\ NonNegativeNutrition(filtered_foods)
    /\ Len(meal_result.foods) >= 2
    /\ meal_result.calories = target_calories
    /\ attempts > 0

\* C2: every entry appended to a meal has a portion of 10 to 100 units.
C2_PortionRange ==
    /\ \A i \in 1..Len(selected_foods) :
          selected_foods[i].portion >= 10 /\ selected_foods[i].portion <= 100
    /\ \A i \in 1..Len(meal_result.foods) :
          meal_result.foods[i].portion >= 10 /\ meal_result.foods[i].portion <= 100

\* C2 witness: a meal holds a zero-calorie food at an age-reduced portion and
\* a food at a portion cut down to the remaining calories
C2_Witness ==
    /\ pc = "returned"
    /\ \E i \in 1..Len(meal_result.foods) :
          /\ meal_result.foods[i].calories = R(0)
          /\ meal_result.foods[i].portion < 100
    /\ \E i \in 1..Len(meal_result.foods) :
          /\ meal_result.foods[i].calories # R(0)
          /\ meal_result.foods[i].portion < 50

\* the catalog row an entry was made from (food names are unique per catalog)
SourceRows(entry) ==
    {i \in 1..Len(LoadedCatalog.rows) : LoadedCatalog.rows[i].food = entry.food}

DietAllows(row, preference) ==
    /\ preference = "Vegan" => row.diet_type = "Vegan"
    /\ preference = "Vegetarian" => row.diet_type \in {"Vegan", "Vegetarian"}

NoExcludedAllergen(row, excluded) ==
    \A k \in 1..Len(excluded) : ~StrContains(row.allergens, excluded[k])

\* the row's price is known and at most the level's ceiling, where the
\* catalog has prices and the level has a ceiling
WithinBudget(df, row, level) ==
    /\ (df.has_price /\ level = "Low") =>
           RLe(ToNumeric(row.price_inr), R(15))
    /\ (df.has_price /\ level = "Medium") =>
           RLe(ToNumeric(row.price_inr), R(25))

Eligible(row) ==
    /\ DietAllows(row, dietary_preference)
    /\ NoExcludedAllergen(row, allergies)
    /\ WithinBudget(LoadedCatalog, row, budget_level)

\* the slot's meal type has no candidate in the filtered catalog
SlotFellBack(k) ==
    FallsBack(filtered_foods.rows, MealTypeOf(diet_plan.meals[k].name))

\* C3: every food of every meal of the plan is a catalog item that the diet
\* class allows, that has no excluded allergen and that is within the budget
\* level's price ceiling, in the slots that fell back too.
C3_PlanFoodsEligible ==
    \A k \in 1..Len(diet_plan.meals) :
        \A i \in 1..Len(diet_plan.meals[k].meal.foods) :
            LET entry == diet_plan.meals[k].meal.foods[i]
            IN  /\ SourceRows(entry) # {}
                /\ \A r \in SourceRows(entry) : Eligible(LoadedCatalog.rows[r])

\* C3 witness: a plan is returned from a catalog the filter has cut down, and
\* one of its slots fell back to the whole filtered catalog and holds foods
C3_Witness ==
    /\ returned = "plan"
    /\ Len(filtered_foods.rows) < Len(LoadedCatalog.rows)
    /\ Len(filtered_foods.rows) > 1
    /\ \E k \in 1..Len(diet_plan.meals) :
          /\ SlotFellBack(k)
          /\ Len(diet_plan.meals[k].meal.foods) > 1

\* C4: after every iteration and in the returned MealResult, each aggregate
\* (calories, protein, carbs, fats, cost) equals the sum over the entries.
C4_TotalsAreSums ==
    /\ InComposer =>
          /\ REq(current_calories, SumOf(CaloriesOf(selected_foods)))
          /\ REq(protein_sum, SumOf(ProteinOf(selected_foods)))
          /\ REq(carbs_sum, SumOf(CarbsOf(selected_foods)))
          /\ REq(fats_sum, SumOf(FatsOf(selected_foods)))
          /\ REq(total_cost, SumOf(PriceOf(selected_foods)))
    /\ pc = "returned" =>
          /\ REq(meal_result.calories, SumOf(CaloriesOf(meal_result.foods)))
          /\ REq(meal_result.macros.protein,
                 SumOf(ProteinOf(meal_result.foods)))
          /\ REq(meal_result.macros.carbs, SumOf(CarbsOf(meal_result.foods)))
          /\ REq(meal_result.macros.fats, SumOf(FatsOf(meal_result.foods)))
          /\ REq(meal_result.cost, SumOf(PriceOf(meal_result.foods)))

\* the frame the next attempt would draw from
NextPool ==
    SamplingPool(meal_foods.rows, selected_categories, Len(selected_foods))

\* C5: a call on a non-empty catalog makes at most 50 attempts and is never
\* without a next step; each iteration consumes one attempt or leaves the
\* loop, and a MealResult of the foods chosen so far is returned.
C5_Terminates ==
    /\ [](attempts <= 50)
    /\ []((pc = "loop"
            /\ LoopContinues(current_calories, target_calories, attempts))
           => Len(NextPool) > 0)
    /\ [][pc = "loop" =>
            \/ (pc' = "loop" /\ attempts' = attempts + 1)
            \/ (pc' = "break" /\ attempts' = attempts)
            \/ (pc' = "returned" /\ attempts' = attempts)]_vars
    /\ [][pc' = "returned" =>
            /\ pc \in {"loop", "break"}
            /\ meal_result'.foods = selected_foods]_vars

\* C5 witness: a meal without foods is returned after all 50 attempts
C5_Witness ==
    /\ pc = "returned"
    /\ attempts = 50
    /\ meal_result.foods = <<>>

\* C6: once the filter has left no food, the request ends with the
\* no-eligible-foods outcome and no meal is composed or stored; a plan is
\* returned only from a non-empty filtered catalog.
C6_NoEligibleFoods ==
    /\ (pc # "request" /\ Len(filtered_foods.rows) = 0) =>
          /\ pc = "done"
          /\ returned = "None"
          /\ diet_plan = EmptyPlan
          /\ composer_targets = <<>>
    /\ returned = "plan" => Len(filtered_foods.rows) > 0

\* C6 witness: a request on a catalog with foods ends with no eligible food
C6_Witness ==
    /\ pc = "done"
    /\ returned = "None"
    /\ Len(LoadedCatalog.rows) > 0

\* C7: under Low and Medium, an item without price data that passes the diet
\* and allergen filters is retained by the filter.
C7_MissingPriceRetained ==
    (pc # "request" /\ budget_level \in {"Low", "Medium"}) =>
        \A i \in 1..Len(LoadedCatalog.rows) :
            LET row == LoadedCatalog.rows[i]
            IN  (/\ IsNaN(row.price_inr)
                 /\ DietAllows(row, dietary_preference)
                 /\ NoExcludedAllergen(row, allergies))
                => \E j \in 1..Len(filtered_foods.rows) :
                       filtered_foods.rows[j].food = row.food

\* a nutrition cell of the loaded row cannot be coerced to a number
Uncoercible(row) ==
    \/ row.calories = TextCell
    \/ row.protein = TextCell
    \/ row.carbs = TextCell
    \/ row.fats = TextCell

\* C8: a row with an uncoercible nutrition field is never a candidate or an
\* entry of a meal, and the aggregates of a meal are numbers.
C8_MalformedRowsDropped ==
    /\ \A i \in 1..Len(meal_foods.rows) :
          \A r \in 1..Len(LoadedCatalog.rows) :
              LoadedCatalog.rows[r].food = meal_foods.rows[i].food
                  => ~Uncoercible(LoadedCatalog.rows[r])
    /\ \A i \in 1..Len(selected_foods) :
          \A r \in SourceRows(selected_foods[i]) :
              ~Uncoercible(LoadedCatalog.rows[r])
    /\ ~IsNaN(current_calories)
    /\ ~IsNaN(protein_sum)
    /\ ~IsNaN(carbs_sum)
    /\ ~IsNaN(fats_sum)

ExpectedSlots == IF age < 18 THEN 5 ELSE IF age > 65 THEN 6 ELSE 4

Fractions == [k \in 1..Len(meal_distribution) |-> meal_distribution[k].fraction]

\* C9: the profile has 5 slots under 18, 6 over 65 and 4 otherwise, its
\* fractions sum to 1, each call's target is its slot's share and the targets
\* of a finished plan sum to daily_calories.
C9_ProfileSumsToDaily ==
    /\ pc \notin {"request", "done"} =>
          /\ Len(meal_distribution) = ExpectedSlots
          /\ SumOf(Fractions) = R(1)
    /\ \A k \in 1..Len(composer_targets) :
          composer_targets[k] = RMul(daily_calories, meal_distribution[k].fraction)
    /\ returned = "plan" =>
          /\ Len(composer_targets) = ExpectedSlots
          /\ SumOf(composer_targets) = daily_calories

\* C9, amended: the same, with the targets of a finished plan summing to
\* daily_calories up to the rounding of the float products and sums.
C9_ProfileSumsToDailyRounded ==
    /\ pc \notin {"request", "done"} =>
          /\ Len(meal_distribution) = ExpectedSlots
          /\ SumOf(Fractions) = R(1)
    /\ \A k \in 1..Len(composer_targets) :
          composer_targets[k] = RMul(daily_calories, meal_distribution[k].fraction)
    /\ returned = "plan" =>
          /\ Len(composer_targets) = ExpectedSlots
          /\ EqUpToRounding(SumOf(composer_targets), daily_calories)

\* C9 witness: a plan for age 65, on the adult profile, is returned and the
\* sum of its 4 targets is not daily_calories
C9_Witness ==
    /\ returned = "plan"
    /\ age = 65
    /\ Len(composer_targets) = 4
    /\ Len(diet_plan.meals) = 4
    /\ SumOf(composer_targets) # daily_calories

AllGoalsDone == DOMAIN calories_by_goal = HealthGoals

GoalOrder ==
    /\ RLt(calories_by_goal["Lose Weight"], calories_by_goal["Maintain Weight"])
    /\ RLt(calories_by_goal["Maintain Weight"], calories_by_goal["Gain Weight"])

\* C10: for every BMR of a valid input and every activity level, the target
\* for Lose Weight is below that for Maintain Weight, which is below that for
\* Gain Weight.
C10_GoalOrder == AllGoalsDone => GoalOrder

\* C10, amended: the same for every BMR above zero, and the BMR of arguments
\* the form of the application accepts is above zero.
C10_GoalOrderPositiveBmr ==
    /\ (AllGoalsDone /\ RGt(bmr, R(0))) => GoalOrder
    /\ (pc = "bmr" /\ Submittable) => RGt(bmr, R(0))

\* C10 witness: the three targets of a positive BMR have been computed, for
\* arguments below the limits of the form
C10_Witness == AllGoalsDone /\ RGt(bmr, R(0)) /\ ~Submittable

\* C11: generate_diet_plan, the filter and the meal composer leave the
\* caller's food catalog as it was loaded, for every request: no cell is
\* rewritten and no column is added.
C11_CatalogUnchanged ==
    /\ food_data.rows = LoadedCatalog.rows
    /\ food_data.has_is_indian = LoadedCatalog.has_is_indian
    /\ food_data.has_price = LoadedCatalog.has_price

\* the early-success condition of a returned meal: calories at 90% of the
\* target or more with at least 3 foods, or 5 foods
EarlySuccess(meal) ==
    \/ (RGe(meal.calories, RMul(target_calories, Frac(9, 10)))
          /\ Len(meal.foods) >= 3)
    \/ Len(meal.foods) >= 5

\* C12: whenever the meal composer returns, the early-success condition
\* holds or all 50 attempts have been consumed; a meal of fewer than 3 foods
\* is never returned while attempts remain.
C12_SuccessOrExhausted ==
    pc = "returned" =>
        /\ (EarlySuccess(meal_result) \/ attempts = 50)
        /\ (Len(meal_result.foods) < 3 => attempts = 50)

\* C12, amended: whenever the meal composer returns, the early-success
\* condition holds, or the aggregate calories are no longer below the target
\* (the loop condition of line 185), or all 50 attempts have been consumed.
C12_SuccessTargetOrExhausted ==
    pc = "returned" =>
        \/ EarlySuccess(meal_result)
        \/ ~RLt(meal_result.calories, target_calories)
        \/ attempts = 50

\* C12 witness: a meal of one or two foods whose calories have reached the
\* target is returned while attempts remain
C12_Witness ==
    /\ pc = "returned"
    /\ Len(meal_result.foods) \in {1, 2}
    /\ RGe(meal_result.calories, target_calories)
    /\ attempts < 50

\* C13: at every point of the meal composer and in every MealResult it
\* returns, at most 5 foods are selected.
C13_AtMostFiveFoods ==
    /\ Len(selected_foods) <= 5
    /\ Len(meal_result.foods) <= 5

\* C13 witness: a meal of 5 foods, still under 90% of its target, is returned
C13_Witness ==
    /\ pc = "returned"
    /\ Len(meal_result.foods) = 5
    /\ RLt(meal_result.calories, RMul(target_calories, Frac(9, 10)))

\* the entry's scaled values are the row's per-100-unit values times ratio
ScaledBy(entry, row, food_price, ratio) ==
    /\ entry.calories = RMul(row.calories, ratio)
    /\ entry.protein = RMul(row.protein, ratio)
    /\ entry.carbs = RMul(row.carbs, ratio)
    /\ entry.fats = RMul(row.fats, ratio)
    /\ entry.price = RMul(food_price, ratio)

\* C14: every accepted entry's calories, protein, carbs, fats and cost are
\* the catalog item's per-100-unit values multiplied by portion / 100, where
\* portion is the portion computed for the food in that attempt.
C14_ScaledByPortionRatio ==
    [][(pc = "loop" /\ Len(selected_foods') = Len(selected_foods) + 1) =>
          LET entry == selected_foods'[Len(selected_foods')]
          IN  \A i \in 1..Len(meal_foods.rows) :
                  LET row == meal_foods.rows[i]
                      portion ==
                          adjust_portion_for_age(
                              TargetPortion(row.calories, target_calories,
                                            current_calories), age)
                  IN  row.food = entry.food =>
                          ScaledBy(entry, row, FoodPrice(meal_foods, row),
                                   RDiv(portion, R(100)))]_vars

\* every category of the meal's candidates is represented in the meal
AllCategoriesRepresented ==
    \A i \in 1..Len(meal_foods.rows) :
        meal_foods.rows[i].category \in selected_categories

\* two entries of the list have the same category
SharesCategory(entries) ==
    \E i, j \in 1..Len(entries) :
        i < j /\ entries[i].category = entries[j].category

\* C15: in every attempt the draw is made among the candidates of an
\* unrepresented category while there is one; an entry of an already
\* represented category is accepted, and two entries of a meal share a
\* category, only once every candidate category is represented.
C15_VarietyFirst ==
    /\ []((pc = "loop"
            /\ LoopContinues(current_calories, target_calories, attempts)
            /\ ~AllCategoriesRepresented)
           => \A i \in 1..Len(NextPool) :
                  NextPool[i].category \notin selected_categories)
    /\ [][(pc = "loop" /\ Len(selected_foods') = Len(selected_foods) + 1
            /\ selected_foods'[Len(selected_foods')].category
                   \in selected_categories)
           => AllCategoriesRepresented]_vars
    /\ [](SharesCategory(selected_foods) => AllCategoriesRepresented)
    /\ []((pc = "returned" /\ SharesCategory(meal_result.foods))
           => AllCategoriesRepresented)

\* C15 witness: a returned meal from candidates of several categories holds
\* two entries of one category
C15_Witness ==
    /\ pc = "returned"
    /\ SharesCategory(meal_result.foods)
    /\ Cardinality(selected_categories) > 1

\* the pool of the next draw holds a food that matches a keyword of the
\* region and a food that matches none
MixedPool ==
    /\ \E i \in 1..Len(NextPool) : is_indian_food(NextPool[i].food)
    /\ \E i \in 1..Len(NextPool) : ~is_indian_food(NextPool[i].food)

\* C16: with the regional preference set, a food accepted from a pool that
\* holds both keyword-matching and non-matching foods is a matching one.
C16_RegionalFoodDrawn ==
    [][(pc = "loop" /\ regional_preference = "Indian" /\ MixedPool
        /\ Len(selected_foods') = Len(selected_foods) + 1)
       => is_indian_food(selected_foods'[Len(selected_foods')].food)]_vars

\* every candidate of the meal has a numeric calories value >= 0
NonNegativeCalories ==
    \A i \in 1..Len(meal_foods.rows) : RGe(meal_foods.rows[i].calories, R(0))

\* a food of the next draw's pool would be rejected at line 239
OvershootTaken ==
    \E i \in 1..Len(NextPool) :
        LET adjusted_portion ==
                adjust_portion_for_age(
                    TargetPortion(NextPool[i].calories, target_calories,
                                  current_calories), age)
            actual_calories ==
                RMul(NextPool[i].calories, PortionFactor(adjusted_portion))
        IN  /\ ~PortionTooSmall(adjusted_portion)
            /\ Overshoots(current_calories, actual_calories, target_calories)

\* C17: for every age and every catalog of numeric calories >= 0, each
\* accepted food adds at most the remaining calories, the aggregate calories
\* never exceed target_calories and the rejection of line 239 is never taken.
C17_NeverAboveTarget ==
    /\ []((InComposer /\ NonNegativeCalories)
           => RLe(current_calories, target_calories))
    /\ []((pc = "returned" /\ NonNegativeCalories)
           => RLe(meal_result.calories, target_calories))
    /\ [][(pc = "loop" /\ NonNegativeCalories
            /\ Len(selected_foods') = Len(selected_foods) + 1)
           => RLe(selected_foods'[Len(selected_foods')].calories,
                  RSub(target_calories, current_calories))]_vars
    /\ []((pc = "loop" /\ NonNegativeCalories
            /\ LoopContinues(current_calories, target_calories, attempts))
           => ~OvershootTaken)

\* the call is on candidates of numeric calories >= 0 with a target above zero
PositiveTarget == NonNegativeCalories /\ RGt(target_calories, R(0))

\* C17, amended: for every target above zero, each accepted food adds at
\* most the remaining calories and the aggregate calories never exceed
\* target_calories, both up to rounding, and the rejection of line 239 is
\* never taken.
C17_NeverAboveTargetPositive ==
    /\ []((InComposer /\ PositiveTarget)
           => LeUpToRounding(current_calories, target_calories))
    /\ []((pc = "returned" /\ PositiveTarget)
           => LeUpToRounding(meal_result.calories, target_calories))
    /\ [][(pc = "loop" /\ PositiveTarget
            /\ Len(selected_foods') = Len(selected_foods) + 1)
           => LeUpToRounding(selected_foods'[Len(selected_foods')].calories,
                             RSub(target_calories, current_calories))]_vars
    /\ []((pc = "loop" /\ PositiveTarget
            /\ LoopContinues(current_calories, target_calories, attempts))
           => ~OvershootTaken)

\* C17 witness: for an adult the first food accepted is cut to the whole
\* target, its calories come out above the target by a rounding error, and
\* the meal of that one food is returned
C17_Witness ==
    /\ pc = "returned"
    /\ NonNegativeCalories
    /\ age \in 18..65
    /\ Len(meal_result.foods) = 1
    /\ RGt(target_calories, R(0))
    /\ RGt(meal_result.calories, target_calories)
    /\ meal_result.foods[1].portion < 100

====
